---- MODULE Spec2Model ----
(***************************************************************************)
(* Model of kick-ws: the WebSocketManager connection controller            *)
(* (src/src/WebSocketManager.ts) together with the environment it talks    *)
(* to: the channel lookup (fetch), the WebSocket objects it creates and    *)
(* the reconnect timers it arms.                                           *)
(*                                                                         *)
(* The manager is single threaded: every action below is one run of one    *)
(* callback (a public method call, a promise continuation, a socket event  *)
(* handler or a timer callback) from start to finish.                      *)
(***************************************************************************)
EXTENDS Integers, Sequences, FiniteSets, Bags, TLC

\* ------------------------------------------------------------------------
\* Bounds of the model
\* ------------------------------------------------------------------------
\* connection attempts of one manager in flight at one time: channel lookups
\* awaited, reconnect timers armed and sockets not closed yet
MaxInFlight == 2

\* ------------------------------------------------------------------------
\* Values
\* ------------------------------------------------------------------------
Channels == {"a", "b"}

\* chatroom.id the lookup returns for a channel name
RoomId(name) == IF name = "a" THEN 1 ELSE 2

ConnectionStates ==
    {"disconnected", "connecting", "connected", "reconnecting", "error"}

\* WebSocket.readyState, plus NULL for `this.ws === null`
ReadyStates == {"NULL", "CONNECTING", "OPEN", "CLOSING", "CLOSED"}

NoTimer == 0

NormalClosure == 1000
AbnormalClosure == 1006

\* the close(code, reason) disconnect() issues
ManualClose == [code |-> NormalClosure, reason |-> "Manual disconnect"]
\* the close event of a connection that was lost
LostClose == [code |-> AbnormalClosure, reason |-> ""]

\* Inbound frames: the message text, whether it parses as JSON, and the
\* envelope's event name and data member (the inner document, a JSON text).
ChatEventName == "App\\Events\\ChatMessageEvent"
BanEventName == "App\\Events\\UserBannedEvent"
ControlEventNames ==
    {"pusher:connection_established", "pusher_internal:subscription_succeeded"}

\* the ten upstream event names and the kind each decodes to
KickEventTypes ==
    ( ChatEventName :> "ChatMessage" )
    @@ ( "App\\Events\\MessageDeletedEvent" :> "MessageDeleted" )
    @@ ( BanEventName :> "UserBanned" )
    @@ ( "App\\Events\\UserUnbannedEvent" :> "UserUnbanned" )
    @@ ( "App\\Events\\SubscriptionEvent" :> "Subscription" )
    @@ ( "App\\Events\\GiftedSubscriptionsEvent" :> "GiftedSubscriptions" )
    @@ ( "App\\Events\\PinnedMessageCreatedEvent" :> "PinnedMessageCreated" )
    @@ ( "App\\Events\\StreamHostEvent" :> "StreamHost" )
    @@ ( "App\\Events\\PollUpdateEvent" :> "PollUpdate" )
    @@ ( "App\\Events\\PollDeleteEvent" :> "PollDelete" )

\* an event name the decoder has no case for
UnknownEventName == "App\\Events\\SomethingElse"

\* a member the object does not have
Undefined == "<undefined>"

\* message texts that are empty or whitespace only
BlankTexts == {"", "  "}

\* inner documents that are not JSON
BadJsonData == {"not json"}

\* plain text and an emote code inside a chat message's content
Text(t) == [emote |-> "", name |-> "", text |-> t]
Emote(id, name) == [emote |-> id, name |-> name, text |-> ""]

\* a chat message as upstream sends it
ChatDoc ==
    [ id |-> "m1",
      content |-> << Text("Hello world!") >>,
      created_at |-> "2024-01-01T00:00:00Z",
      sender |-> [ id |-> "12345", username |-> "testuser", slug |-> "testuser",
                   identity |-> [ color |-> "#ff0000", badges |-> "[mod]" ] ],
      chatroom |-> [ id |-> "67890" ] ]

\* a chat message with an emote code, no identity and no chatroom
EmoteChatDoc ==
    [ id |-> "m2",
      content |-> << Text("gg "), Emote("37", "Kappa") >>,
      created_at |-> "2024-01-01T00:00:01Z",
      sender |-> [ id |-> "12345", username |-> "testuser", slug |-> "testuser" ] ]

\* the inner documents that are JSON, by their text
JsonDocs ==
    ( "{chat}" :> ChatDoc )
    @@ ( "{chat-emote}" :> EmoteChatDoc )
    @@ ( "{}" :> [f \in {} |-> Undefined] )
    @@ ( "{deleted}" :> [ message_id |-> "m1", chatroom_id |-> "67890" ] )
    @@ ( "{ban}" :> [ username |-> "troll" ] )
    @@ ( "{ban-alt}" :> [ banned_username |-> "troll2" ] )
    @@ ( "{unban-alt}" :> [ unbanned_username |-> "troll3" ] )
    @@ ( "{ban-both}" :> [ username |-> "troll", banned_username |-> "troll2" ] )
    @@ ( "{ban-empty}" :> [ username |-> "", banned_username |-> "troll2" ] )
    @@ ( "{unban-empty}" :> [ username |-> "", unbanned_username |-> "troll3" ] )
    @@ ( "{sub}" :> [ user |-> [ username |-> "fan" ] ] )
    @@ ( "{gift}" :> [ gifter |-> [ username |-> "santa" ],
                       recipients |-> << [ str |-> "r1" ], [ username |-> "r2" ],
                                         [ username |-> "" ] >> ] )
    @@ ( "{pinned}" :> [ message |-> ChatDoc ] )
    @@ ( "{host}" :> [ hoster |-> [ str |-> "h1" ],
                       hosted_channel |-> [ username |-> "c1" ] ] )
    @@ ( "{poll}" :> [ id |-> "p1", question |-> "ok?",
                       options |-> << [ id |-> "o1", text |-> "yes", votes |-> "3" ],
                                      [ id |-> "o2", text |-> "no" ] >> ] )

\* JSON.parse of an inner document that is JSON
JsonParse(data) == JsonDocs[data]

\* a frame whose text is a JSON envelope
Envelope(event, data) ==
    [raw |-> "{json}", json |-> TRUE, event |-> event, data |-> data]

\* a frame whose text is not a JSON envelope
TextFrame(raw) ==
    [raw |-> raw, json |-> FALSE, event |-> Undefined, data |-> Undefined]

\* the frames a socket of the connection model delivers
Frames ==
    { Envelope("pusher_internal:subscription_succeeded", "{}"),
      Envelope(ChatEventName, "{chat}") }

\* what the decoder returns for a frame it rejects
NullEvent == [type |-> "null", data |-> [payload |-> ""]]

\* the Error connect() rejects with, and the Event a socket's onerror gets
ConnectionError == [error |-> "connection"]
SocketErrorEvent == [error |-> "socket"]

\* ------------------------------------------------------------------------
\* State
\* ------------------------------------------------------------------------
\* A WebSocket object is [rs, closedByUs, subscribed]: its readyState, whether
\* close() was called on it, and whether a subscribe frame was sent on it.
\* Sockets matter to the manager only through `this.ws === socket`, so the
\* ones it no longer references are kept as a bag.
VARIABLES
    connectionState,      \* WebSocketManager.connectionState
    channelName,          \* WebSocketManager.channelName
    channelId,            \* WebSocketManager.channelId
    ws,                   \* the socket WebSocketManager.ws references
    isManualDisconnect,   \* WebSocketManager.isManualDisconnect
    reconnectTimer,       \* WebSocketManager.reconnectTimer (NoTimer = null)
    messageBuffer,        \* WebSocketManager.messageBuffer
    options,              \* WebSocketManager.options
    orphans,              \* unclosed sockets with handlers that ws left behind
    pendingTimers,        \* setTimeout handles armed and not yet fired/cleared
    delays,               \* the delay each armed handle was given to setTimeout
    pending,              \* performConnection() calls awaiting getChannelInfo
    emitted,              \* events published by the last callback, in order
    sent,                 \* frames the last callback sent, in order
    op,                   \* the last callback that ran and how it ended
    quiesced,             \* disconnect() returned, no connect() started since
    arrived,              \* frames Deliver handed over since the buffer was empty
    events,               \* EventEmitter.events: the listeners of each event
    eventKeys,            \* EventEmitter.events: the event names it has an entry for
    wrappers,             \* onceWrapper closures once() has created
    invoked,              \* listener calls the last emitter method made, in order
    fired                 \* calls of the listener of each onceWrapper

vars == << connectionState, channelName, channelId, ws, isManualDisconnect,
           reconnectTimer, messageBuffer, options, orphans, pendingTimers,
           pending, emitted, sent, op, quiesced, arrived,
           events, wrappers, invoked, fired, delays, eventKeys >>

\* the events an emitter is used with in the emitter model
EventNames == {"message"}

\* `new EventEmitter()`: no listeners
NewEmitter ==
    /\ events = [event \in EventNames |-> << >>]
    /\ eventKeys = {}
    /\ wrappers = 0
    /\ invoked = << >>
    /\ fired = EmptyBag

\* no setTimeout handle is armed
NoDelays == [h \in {} |-> 0]

NullSocket == [rs |-> "NULL", closedByUs |-> FALSE, subscribed |-> FALSE]
NewSocket == [rs |-> "CONNECTING", closedByUs |-> FALSE, subscribed |-> FALSE]

\* a socket that can still report events
Live(sock) == sock.rs \in {"CONNECTING", "OPEN", "CLOSING"}

\* the types of the fields
TypeOK ==
    /\ connectionState \in ConnectionStates
    /\ channelName \in Channels \cup {""}
    /\ channelId \in {0} \cup { RoomId(n) : n \in Channels }
    /\ ws.rs \in ReadyStates
    /\ \A o \in BagToSet(orphans) : Live(o)
    /\ isManualDisconnect \in BOOLEAN
    /\ reconnectTimer \in Nat
    /\ pendingTimers \subseteq Nat \ {NoTimer}
    /\ DOMAIN delays = pendingTimers
    /\ messageBuffer \in Seq(Frames)
    /\ options.autoReconnect \in BOOLEAN

\* ------------------------------------------------------------------------
\* The manager as one record, so that the private methods compose
\* ------------------------------------------------------------------------
Manager ==
    [ connectionState |-> connectionState,
      channelName |-> channelName,
      channelId |-> channelId,
      ws |-> ws,
      isManualDisconnect |-> isManualDisconnect,
      reconnectTimer |-> reconnectTimer,
      messageBuffer |-> messageBuffer,
      options |-> options,
      orphans |-> orphans,
      pendingTimers |-> pendingTimers,
      delays |-> delays,
      pending |-> pending,
      emitted |-> << >>,
      sent |-> << >>,
      arrived |-> arrived,
      events |-> events,
      eventKeys |-> eventKeys,
      wrappers |-> wrappers,
      invoked |-> invoked,
      fired |-> fired ]

\* every variable takes its value from m; o is the callback that ran
Commit(m, o, q) ==
    /\ connectionState' = m.connectionState
    /\ channelName' = m.channelName
    /\ channelId' = m.channelId
    /\ ws' = m.ws
    /\ isManualDisconnect' = m.isManualDisconnect
    /\ reconnectTimer' = m.reconnectTimer
    /\ messageBuffer' = m.messageBuffer
    /\ options' = m.options
    /\ orphans' = m.orphans
    /\ pendingTimers' = m.pendingTimers
    /\ delays' = m.delays
    /\ pending' = m.pending
    /\ emitted' = m.emitted
    /\ sent' = m.sent
    /\ arrived' = m.arrived
    /\ events' = m.events
    /\ eventKeys' = m.eventKeys
    /\ wrappers' = m.wrappers
    /\ invoked' = m.invoked
    /\ fired' = m.fired
    /\ op' = o
    /\ quiesced' = q

\* name: the callback; by: who started what it continues (the connection
\* procedure of a lookup, the close of a socket); result: how it ended; held:
\* whether its socket is the one ws references
Op(name, by, result, held) ==
    [name |-> name, by |-> by, result |-> result, held |-> held]

\* ------------------------------------------------------------------------
\* WebSocketManager's private methods
\* ------------------------------------------------------------------------
\* a state change that drops the buffered frames when the connection ends
setConnectionState_resetsBuffer(m, state) ==
    [m EXCEPT !.connectionState = state,
              !.messageBuffer = IF state = "disconnected" THEN << >> ELSE @]

\* setConnectionState(state)
setConnectionState(m, state) == [m EXCEPT !.connectionState = state]

\* EventEmitter.emit as the controller uses it: the publish is recorded with
\* the connection state and the buffer its handlers observe
emit(m, event, arg) ==
    [m EXCEPT !.emitted =
        Append(@, [ev |-> event, arg |-> arg, st |-> m.connectionState,
                   buf |-> m.messageBuffer])]

\* clearTimeout(handle): clearing a handle that already fired does nothing
clearTimeout(m, handle) ==
    [m EXCEPT !.pendingTimers = @ \ {handle},
              !.delays = [h \in DOMAIN @ \ {handle} |-> @[h]]]

\* `setTimeout(callback, delay)` returning the handle t
setTimeout(m, t, delay) ==
    [m EXCEPT !.pendingTimers = @ \cup {t},
              !.delays = [h \in DOMAIN @ \cup {t} |->
                             IF h = t THEN delay ELSE @[h]]]

\* setTimeout returns a handle that no armed timer has
FreshTimer(m) ==
    CHOOSE t \in 1 .. (Cardinality(m.pendingTimers) + 1) :
        /\ t \notin m.pendingTimers
        /\ \A u \in 1 .. (t - 1) : u \in m.pendingTimers

\* `if (this.reconnectTimer) clearTimeout(this.reconnectTimer)`
ClearReconnectTimer(m) ==
    IF m.reconnectTimer # NoTimer THEN clearTimeout(m, m.reconnectTimer) ELSE m

\* a scheduleReconnect that arms a timer without clearing the armed one
scheduleReconnect_keepsOld(m) ==
    LET m1 == setConnectionState(m, "reconnecting")
        t == FreshTimer(m1)
    IN  [setTimeout(m1, t, m1.options.reconnectInterval)
            EXCEPT !.reconnectTimer = t]

\* scheduleReconnect()
scheduleReconnect(m) ==
    LET m1 == setConnectionState(ClearReconnectTimer(m), "reconnecting")
        t == FreshTimer(m1)
    IN  [setTimeout(m1, t, m1.options.reconnectInterval)
            EXCEPT !.reconnectTimer = t]

\* a reconnect policy that forgets the manual flag
ShouldReconnect_ignoresManual(m) == m.options.autoReconnect

\* `this.options.autoReconnect && !this.isManualDisconnect`
ShouldReconnect(m) == m.options.autoReconnect /\ ~m.isManualDisconnect

\* handleDisconnect(code, reason)
handleDisconnect(m, ev) ==
    LET m1 == emit(setConnectionState(m, "disconnected"), "disconnect", ev)
    IN  IF ShouldReconnect(m1) THEN scheduleReconnect(m1) ELSE m1

\* an error handler that publishes the error and never reschedules
handleConnectionError_noReconnect(m) ==
    emit(setConnectionState(m, "error"), "error", ConnectionError)

\* handleConnectionError(error)
handleConnectionError(m) ==
    LET m1 == emit(setConnectionState(m, "error"), "error", ConnectionError)
    IN  IF ShouldReconnect(m1) THEN scheduleReconnect(m1) ELSE m1

\* performConnection() up to its await of getChannelInfo(this.channelName)
performConnection(m, by) ==
    LET m1 == setConnectionState(m, "connecting")
    IN  [m1 EXCEPT !.pending =
            @ (+) SetToBag({[by |-> by, name |-> m.channelName]})]

\* a guard that forgets the attempt in progress
AlreadyConnected_connectedOnly(m) == m.connectionState = "connected"

\* the guard that opens connect()
AlreadyConnected(m) ==
    m.connectionState = "connected" \/ m.connectionState = "connecting"

\* ------------------------------------------------------------------------
\* Message pipeline
\* ------------------------------------------------------------------------
\* JSON values: an object is a record, an absent member reads as Undefined, a
\* number is written as its decimal text, and where the code asks
\* `typeof x === "string"` a string is the record [str |-> text].
Has(d, f) == f \in DOMAIN d

Get(d, f) == IF Has(d, f) THEN d[f] ELSE Undefined

\* truthiness of a string or number member
Truthy(x) == x \notin {Undefined, "", "0"}

\* x || y
Or(x, y) == IF Truthy(x) THEN x ELSE y

\* typeof x === "string"
IsString(x) == Has(x, "str")

\* `x.username` of an optional object member x of d, undefined without x
UsernameOf(d, f) == IF Has(d, f) THEN Get(d[f], "username") ELSE Undefined

\* event.startsWith("pusher:") || event.startsWith("pusher_internal:")
IsPusherEvent(event) == event \in ControlEventNames

\* a decoder that knows chat messages only
EventTypeOf_chatOnly(event) ==
    IF event = ChatEventName THEN "ChatMessage" ELSE "null"

\* a decoder that takes every name it does not know for a chat message
EventTypeOf_defaultChat(event) ==
    IF event \in DOMAIN KickEventTypes THEN KickEventTypes[event]
    ELSE "ChatMessage"

\* the switch of parseMessage and the eventTypeMap of isEventFiltered
EventTypeOf(event) ==
    IF event \in DOMAIN KickEventTypes THEN KickEventTypes[event] ELSE "null"

\* the message text is empty or blank: `!rawMessage || rawMessage.trim() === ""`
IsBlank(frame) == frame.raw \in BlankTexts

\* MessageParser.extractEventType(rawMessage)
extractEventType(frame) ==
    IF IsBlank(frame) THEN "null"
    ELSE IF ~frame.json THEN "null"
    ELSE IF frame.event = Undefined \/ frame.event = "" THEN "null"
    ELSE IF IsPusherEvent(frame.event) THEN "null"
    ELSE frame.event

\* MessageParser.cleanEmotes(content): content is a sequence of pieces, a
\* piece is plain text or an emote code [emote:<id>:<name>]
cleanEmotes(content) ==
    [i \in DOMAIN content |->
        IF content[i].emote # "" THEN Text(content[i].name)
        ELSE content[i]]

\* MessageParser.parseChatMessage(data), for data with a sender
parseChatMessage(data) ==
    [ id |-> Get(data, "id"),
      content |-> IF Has(data, "content") THEN cleanEmotes(data.content)
                  ELSE << >>,
      type |-> "message",
      created_at |-> Get(data, "created_at"),
      sender |->
        [ id |-> Get(data.sender, "id"),
          username |-> Get(data.sender, "username"),
          slug |-> Get(data.sender, "slug"),
          identity |->
            [ color |-> IF Has(data.sender, "identity")
                        THEN Or(Get(data.sender.identity, "color"), "#ffffff")
                        ELSE "#ffffff",
              badges |-> IF Has(data.sender, "identity")
                         THEN Or(Get(data.sender.identity, "badges"), "[]")
                         ELSE "[]" ] ],
      chatroom |-> [ id |-> IF Has(data, "chatroom")
                            THEN Or(Get(data.chatroom, "id"), "0")
                            ELSE "0" ] ]

\* MessageParser.parseMessageDeleted(data)
parseMessageDeleted(data) ==
    [ message_id |-> Get(data, "message_id"),
      chatroom_id |-> Get(data, "chatroom_id"),
      type |-> "message_deleted" ]

\* a ban decoder that reads `username` only
parseUserBanned_usernameOnly(data) ==
    [ username |-> Or(Get(data, "username"), "unknown"),
      type |-> "user_banned" ]

\* MessageParser.parseUserBanned(data)
parseUserBanned(data) ==
    [ username |-> Or(Get(data, "username"),
                      Or(Get(data, "banned_username"), "unknown")),
      type |-> "user_banned" ]

\* MessageParser.parseUserUnbanned(data)
parseUserUnbanned(data) ==
    [ username |-> Or(Get(data, "username"),
                      Or(Get(data, "unbanned_username"), "unknown")),
      type |-> "user_unbanned" ]

\* MessageParser.parseSubscription(data)
parseSubscription(data) ==
    [ username |-> Or(Get(data, "username"),
                      Or(UsernameOf(data, "user"), "unknown")),
      type |-> "subscription" ]

\* MessageParser.parseGiftedSubscriptions(data)
parseGiftedSubscriptions(data) ==
    [ gifted_by |->
        Or(Get(data, "gifted_by"),
           Or(IF ~Has(data, "gifter") THEN Undefined
              ELSE IF IsString(data.gifter) THEN data.gifter.str
              ELSE Get(data.gifter, "username"),
              "unknown")),
      recipients |->
        IF Has(data, "recipients")
        THEN [i \in DOMAIN data.recipients |->
                 IF IsString(data.recipients[i]) THEN data.recipients[i].str
                 ELSE Or(Get(data.recipients[i], "username"), "unknown")]
        ELSE << >>,
      type |-> "gifted_subscriptions" ]

\* MessageParser.parsePinnedMessageCreated(data), for data with a message
parsePinnedMessageCreated(data) ==
    [ message |-> parseChatMessage(data.message),
      type |-> "pinned_message_created" ]

\* `typeof x === "string" ? x : x?.username || "unknown"` of parseStreamHost
HostName(data, f) ==
    IF Has(data, f) /\ IsString(data[f]) THEN data[f].str
    ELSE Or(UsernameOf(data, f), "unknown")

\* MessageParser.parseStreamHost(data)
parseStreamHost(data) ==
    [ hoster |-> HostName(data, "hoster"),
      hosted_channel |-> HostName(data, "hosted_channel"),
      type |-> "stream_host" ]

\* MessageParser.parsePollUpdate(data)
parsePollUpdate(data) ==
    [ poll_id |-> Get(data, "id"),
      question |-> Get(data, "question"),
      options |->
        IF Has(data, "options")
        THEN [i \in DOMAIN data.options |->
                 [ id |-> Get(data.options[i], "id"),
                   text |-> Get(data.options[i], "text"),
                   votes |-> Or(Get(data.options[i], "votes"), "0") ]]
        ELSE << >>,
      type |-> "poll_update" ]

\* MessageParser.parsePollDelete(data)
parsePollDelete(data) ==
    [ poll_id |-> Get(data, "id"), type |-> "poll_delete" ]

\* the parse function of a kind reads a member of an undefined member
\* (data.sender.id, data.message.sender.id) and throws TypeError
ParseThrows(kind, data) ==
    \/ kind = "ChatMessage" /\ ~Has(data, "sender")
    \/ kind = "PinnedMessageCreated"
          /\ (~Has(data, "message") \/ ~Has(data.message, "sender"))

\* the case of parseMessage's switch for a kind
ParsePayload(kind, data) ==
    CASE kind = "ChatMessage" -> parseChatMessage(data)
      [] kind = "MessageDeleted" -> parseMessageDeleted(data)
      [] kind = "UserBanned" -> parseUserBanned(data)
      [] kind = "UserUnbanned" -> parseUserUnbanned(data)
      [] kind = "Subscription" -> parseSubscription(data)
      [] kind = "GiftedSubscriptions" -> parseGiftedSubscriptions(data)
      [] kind = "PinnedMessageCreated" -> parsePinnedMessageCreated(data)
      [] kind = "StreamHost" -> parseStreamHost(data)
      [] kind = "PollUpdate" -> parsePollUpdate(data)
      [] kind = "PollDelete" -> parsePollDelete(data)

\* MessageParser.parseMessage(rawMessage)
parseMessage(frame) ==
    IF IsBlank(frame) THEN NullEvent
    ELSE IF ~frame.json THEN NullEvent
    ELSE IF frame.event = Undefined \/ frame.event = "" \/ frame.data = Undefined
        THEN NullEvent
    ELSE IF IsPusherEvent(frame.event) THEN NullEvent
    ELSE IF frame.data = "" THEN NullEvent
    ELSE IF frame.data \in BadJsonData THEN NullEvent
    ELSE IF EventTypeOf(frame.event) = "null" THEN NullEvent
    ELSE IF ParseThrows(EventTypeOf(frame.event), JsonParse(frame.data))
        THEN NullEvent
    ELSE [type |-> EventTypeOf(frame.event),
          data |-> ParsePayload(EventTypeOf(frame.event), JsonParse(frame.data))]

\* a filter that suppresses the listed kinds instead of the others
isEventFiltered_denyList(m, eventType) ==
    EventTypeOf(eventType) \in m.options.filteredEvents

\* isEventFiltered(eventType)
isEventFiltered(m, eventType) ==
    IF m.options.filteredEvents = {} THEN FALSE
    ELSE IF EventTypeOf(eventType) # "null"
        THEN EventTypeOf(eventType) \notin m.options.filteredEvents
    ELSE FALSE

\* a buffer that, once full, drops the frame that arrives
addToBuffer_keepOldest(m, frame) ==
    [m EXCEPT !.messageBuffer =
        IF Len(@) >= m.options.bufferSize THEN @ ELSE Append(@, frame)]

\* addToBuffer(message)
addToBuffer(m, frame) ==
    LET pushed == Append(m.messageBuffer, frame)
    IN  [m EXCEPT !.messageBuffer =
            IF Len(pushed) > m.options.bufferSize THEN Tail(pushed) ELSE pushed]

\* a pipeline that stores the frame before it publishes it
handleMessage_bufferFirst(m, frame) ==
    LET m1 == IF m.options.enableBuffer THEN addToBuffer(m, frame) ELSE m
        m2 == emit(m1, "rawMessage", frame)
        parsed == parseMessage(frame)
    IN  IF parsed.type # "null" THEN emit(m2, parsed.type, parsed.data) ELSE m2

\* a pipeline that stores only the frames it decodes and publishes
handleMessage_bufferDecoded(m, frame) ==
    LET m1 == emit(m, "rawMessage", frame)
        eventType == extractEventType(frame)
        parsed == parseMessage(frame)
    IN  IF frame.json /\ IsPusherEvent(frame.event) THEN m1
        ELSE IF eventType # "null" /\ isEventFiltered(m1, eventType) THEN m1
        ELSE IF parsed.type # "null"
            THEN emit(IF m1.options.enableBuffer THEN addToBuffer(m1, frame) ELSE m1,
                      parsed.type, parsed.data)
        ELSE m1

\* handleMessage(rawMessage)
handleMessage(m, frame) ==
    LET m1 == emit(m, "rawMessage", frame)
        m2 == IF m1.options.enableBuffer THEN addToBuffer(m1, frame) ELSE m1
        eventType == extractEventType(frame)
        parsed == parseMessage(frame)
    IN  IF frame.json /\ IsPusherEvent(frame.event) THEN m2
        ELSE IF eventType # "null" /\ isEventFiltered(m2, eventType) THEN m2
        ELSE IF parsed.type # "null" THEN emit(m2, parsed.type, parsed.data)
        ELSE m2

\* ------------------------------------------------------------------------
\* The WebSocket objects
\* ------------------------------------------------------------------------
\* a socket of the manager: the one ws references (held) or one left behind
SocketRef(held, sock) == [held |-> held, sock |-> sock]

SocketRefs ==
    { SocketRef(TRUE, ws) : x \in IF ws.rs = "NULL" THEN {} ELSE {1} }
        \cup { SocketRef(FALSE, o) : o \in BagToSet(orphans) }

\* the socket ref.sock becomes new; a closed socket nobody references is gone
PutSocket(m, ref, new) ==
    IF ref.held THEN [m EXCEPT !.ws = new]
    ELSE [m EXCEPT !.orphans =
            (@ (-) SetToBag({ref.sock}))
                (+) (IF Live(new) THEN SetToBag({new}) ELSE EmptyBag)]

\* sockets that are not closed
LiveCount(m) ==
    BagCardinality(m.orphans) + (IF Live(m.ws) THEN 1 ELSE 0)

\* a socket that is created with its handlers but not stored in ws
NewWebSocket_notStored(m) ==
    [m EXCEPT !.orphans = @ (+) SetToBag({NewSocket})]

\* `this.ws = new WebSocket(wsUrl)`: the socket ws referenced is left behind
\* with its handlers attached
NewWebSocket(m) ==
    [m EXCEPT !.ws = NewSocket,
              !.orphans = IF Live(m.ws) THEN @ (+) SetToBag({m.ws}) ELSE @]

\* WebSocket.close(code, reason): starts the closing handshake of a socket
\* that is connecting or open and does nothing on one closing or closed
closeSocket(sock) ==
    IF sock.rs \in {"CONNECTING", "OPEN"}
    THEN [sock EXCEPT !.rs = "CLOSING", !.closedByUs = TRUE]
    ELSE sock

\* WebSocket.send(data): what can happen to the frame. A connecting socket
\* throws InvalidStateError; a closing or closed one discards the data (the
\* standard) or throws (the test suite's socket).
SendOutcomes(sock) ==
    IF sock.rs = "OPEN" THEN {"sent"}
    ELSE IF sock.rs = "CONNECTING" THEN {"throw"}
    ELSE {"dropped", "throw"}

\* the frame subscribeToChannel() builds
SubscribeFrame(m) ==
    [event |-> "pusher:subscribe",
     channel |-> << "chatrooms", m.channelId, "v2" >>]

\* subscribeToChannel(), with the outcome of its this.ws.send
subscribeToChannel(m, outcome) ==
    IF m.ws.rs = "NULL" THEN m
    ELSE IF outcome = "throw" THEN m
    ELSE LET m1 == IF outcome = "sent"
                   THEN [m EXCEPT !.ws.subscribed = TRUE,
                                  !.sent = Append(@, SubscribeFrame(m))]
                   ELSE m
             m2 == setConnectionState(m1, "connected")
         IN  emit(m2, "ready", [channel |-> m2.channelName])

\* isConnected()
isConnected == connectionState = "connected" /\ ws.rs = "OPEN"

\* ------------------------------------------------------------------------
\* Initial state: `new WebSocketManager(options)`
\* ------------------------------------------------------------------------
DefaultBufferSize == 1000
DefaultReconnectInterval == 5000

\* the constructor's defaults, with autoReconnect as the caller sets it
InitialOptions ==
    { [ autoReconnect |-> b,
        reconnectInterval |-> DefaultReconnectInterval,
        enableBuffer |-> FALSE,
        bufferSize |-> DefaultBufferSize,
        filteredEvents |-> {} ] : b \in BOOLEAN }

Init ==
    /\ connectionState = "disconnected"
    /\ channelName = ""
    /\ channelId = 0
    /\ ws = NullSocket
    /\ isManualDisconnect = FALSE
    /\ reconnectTimer = NoTimer
    /\ messageBuffer = << >>
    /\ options \in InitialOptions
    /\ orphans = EmptyBag
    /\ pendingTimers = {}
    /\ delays = NoDelays
    /\ pending = EmptyBag
    /\ emitted = << >>
    /\ sent = << >>
    /\ op = Op("new", "", "", FALSE)
    /\ quiesced = FALSE
    /\ arrived = << >>
    /\ NewEmitter

\* ------------------------------------------------------------------------
\* Public operations
\* ------------------------------------------------------------------------
\* what is in flight: only connect() adds to it, every other step moves an
\* attempt on (timer -> lookup -> socket) or ends it
InFlight(m) ==
    BagCardinality(m.pending) + Cardinality(m.pendingTimers) + LiveCount(m)

\* a connect() that leaves the manual flag as disconnect() set it
Connect_keepsManual(name) ==
    LET m == Manager
    IN  IF AlreadyConnected(m)
        THEN Commit(m, Op("connect", name, "noop", FALSE), quiesced)
        ELSE /\ InFlight(m) < MaxInFlight
             /\ Commit(performConnection([m EXCEPT !.channelName = name],
                                         "connect"),
                       Op("connect", name, "started", FALSE), FALSE)

\* connect(channelName), up to the first await
Connect(name) ==
    LET m == Manager
    IN  IF AlreadyConnected(m)
        THEN Commit(m, Op("connect", name, "noop", FALSE), quiesced)
        ELSE /\ InFlight(m) < MaxInFlight
             /\ Commit(performConnection(
                           [m EXCEPT !.channelName = name,
                                     !.isManualDisconnect = FALSE],
                           "connect"),
                       Op("connect", name, "started", FALSE), FALSE)

\* disconnect(). sync: the socket reports its close from inside close(), as
\* the test suite's socket does; otherwise the close event comes later.
Disconnect(sync) ==
    LET m == Manager
        m1 == [m EXCEPT !.isManualDisconnect = TRUE]
        m2 == IF m1.reconnectTimer # NoTimer
              THEN [clearTimeout(m1, m1.reconnectTimer)
                        EXCEPT !.reconnectTimer = NoTimer]
              ELSE m1
        closing == closeSocket(m2.ws)
        m3 == IF m2.ws.rs = "NULL" THEN m2
              ELSE IF sync
              THEN handleDisconnect(
                       [m2 EXCEPT !.ws = [closing EXCEPT !.rs = "CLOSED"]],
                       ManualClose)
              ELSE [m2 EXCEPT !.ws = closing]
        m4 == [m3 EXCEPT !.ws = NullSocket,
                         !.orphans = IF Live(m3.ws)
                                     THEN @ (+) SetToBag({m3.ws}) ELSE @]
    IN  /\ sync => ws.rs \in {"CONNECTING", "OPEN"}
        /\ Commit(setConnectionState(m4, "disconnected"),
                  Op("disconnect", "", IF sync THEN "sync" ELSE "async",
                     ws.rs # "NULL"),
                  TRUE)

\* a merge of newOptions over the constructor's defaults instead of over the
\* options in force
MergeOptions_overDefaults(old, new) ==
    [k \in DOMAIN old |->
        IF k \in DOMAIN new THEN new[k]
        ELSE (CHOOSE o \in InitialOptions : o.autoReconnect)[k]]

\* `{ ...this.options, ...newOptions }`
MergeOptions(old, new) ==
    [k \in DOMAIN old |-> IF k \in DOMAIN new THEN new[k] ELSE old[k]]

OptionUpdates == { [autoReconnect |-> b] : b \in BOOLEAN }

\* updateOptions(newOptions)
UpdateOptions(newOptions) ==
    /\ DOMAIN newOptions \subseteq DOMAIN options
    /\ Commit([Manager EXCEPT !.options = MergeOptions(@, newOptions)],
              Op("updateOptions", "", "", FALSE), quiesced)

\* ------------------------------------------------------------------------
\* Continuations and callbacks
\* ------------------------------------------------------------------------
\* what the awaited part of performConnection() can do
ResolveOutcomes == {"ok", "lookupFailed", "socketFailed"}

\* performConnection() after `await this.getChannelInfo(...)`, for the call p
\* started by connect() or by the reconnect timer, and what its caller does
\* with the outcome
Resolve(p, outcome) ==
    LET m == [Manager EXCEPT !.pending = @ (-) SetToBag({p})]
        resolved == [m EXCEPT !.channelId = RoomId(p.name)]
        failed == IF outcome = "socketFailed" THEN resolved ELSE m
    IN  /\ BagIn(p, pending)
        /\ outcome \in ResolveOutcomes
        /\ IF outcome = "ok"
           THEN Commit(NewWebSocket(resolved),
                       Op("resolve", p.by, "resolved", TRUE), quiesced)
           ELSE IF p.by = "connect"
           THEN Commit(handleConnectionError(failed),
                       Op("resolve", p.by, "rejected", FALSE), quiesced)
           ELSE Commit(failed, Op("resolve", p.by, "rejected", FALSE), quiesced)

\* ws.onopen of a socket
SocketOpen(s, outcome) ==
    LET m == PutSocket(Manager, s, [s.sock EXCEPT !.rs = "OPEN"])
    IN  /\ s \in SocketRefs
        /\ s.sock.rs = "CONNECTING"
        /\ IF m.ws.rs = "NULL"
           THEN /\ outcome = "nosocket"
                /\ Commit(m, Op("open", "", outcome, s.held), quiesced)
           ELSE /\ outcome \in SendOutcomes(m.ws)
                /\ Commit(subscribeToChannel(m, outcome),
                          Op("open", "", outcome, s.held), quiesced)

\* an onmessage that drops the frame unless the state is `connected`
SocketMessage_onlyConnected(s, frame) ==
    /\ s \in SocketRefs
    /\ s.sock.rs = "OPEN"
    /\ Commit(IF connectionState = "connected"
              THEN handleMessage(Manager, frame) ELSE Manager,
              Op("message", "", "", s.held), quiesced)

\* ws.onmessage of a socket
SocketMessage(s, frame) ==
    /\ s \in SocketRefs
    /\ s.sock.rs = "OPEN"
    /\ Commit(handleMessage(Manager, frame),
              Op("message", "", "", s.held), quiesced)

\* ws.onerror of a socket: the connection failed, its close event follows
SocketError(s) ==
    /\ s \in SocketRefs
    /\ s.sock.rs \in {"CONNECTING", "OPEN"}
    /\ Commit(emit(PutSocket(Manager, s, [s.sock EXCEPT !.rs = "CLOSING"]),
                   "error", SocketErrorEvent),
              Op("error", "", "", s.held), quiesced)

\* the close event a socket reports
CloseEventOf(sock) == IF sock.closedByUs THEN ManualClose ELSE LostClose

\* ws.onclose of a socket
SocketClose(s) ==
    /\ s \in SocketRefs
    /\ Live(s.sock)
    /\ Commit(handleDisconnect(
                  PutSocket(Manager, s,
                            [s.sock EXCEPT !.rs = "CLOSED", !.closedByUs = FALSE]),
                  CloseEventOf(s.sock)),
              Op("close", IF s.sock.closedByUs THEN "disconnect" ELSE "",
                 "", s.held), quiesced)

\* a timer callback that starts no connection procedure
TimerFire_noAttempt(t) ==
    /\ t \in pendingTimers
    /\ Commit(clearTimeout(Manager, t), Op("timer", "timer", "", FALSE), quiesced)

\* the callback scheduleReconnect() handed to setTimeout
TimerFire(t) ==
    /\ t \in pendingTimers
    /\ Commit(performConnection(clearTimeout(Manager, t), "timer"),
              Op("timer", "timer", "", FALSE), quiesced)

Next ==
    \/ \E name \in Channels : Connect(name)
    \/ \E sync \in BOOLEAN : Disconnect(sync)
    \/ \E o \in OptionUpdates : UpdateOptions(o)
    \/ \E p \in BagToSet(pending), outcome \in ResolveOutcomes : Resolve(p, outcome)
    \/ \E s \in SocketRefs, outcome \in {"sent", "throw", "dropped", "nosocket"} :
          SocketOpen(s, outcome)
    \/ \E s \in SocketRefs, frame \in Frames : SocketMessage(s, frame)
    \/ \E s \in SocketRefs : SocketError(s)
    \/ \E s \in SocketRefs : SocketClose(s)
    \/ \E t \in pendingTimers : TimerFire(t)

Spec == Init /\ [][Next]_vars

\* setTimeout callbacks run: a timer that stays armed fires
FairSpec == Spec /\ WF_vars(\E t \in pendingTimers : TimerFire(t))

\* ------------------------------------------------------------------------
\* The message pipeline on one open connection
\* ------------------------------------------------------------------------
\* frames recorded per run of the pipeline specification, and the largest
\* bufferSize it is configured with
MaxFrames == 3
MaxBufferSize == 2

\* one frame of each sort: two domain events, a control frame, a text that
\* is not JSON and an event name the decoder does not know
PipeFrames ==
    { Envelope(ChatEventName, "{chat}"),
      Envelope(BanEventName, "{ban}"),
      Envelope("pusher:connection_established", "{}"),
      TextFrame("not json"),
      Envelope(UnknownEventName, "{}") }

\* filteredEvents settings: no filter, and allow-lists of one and two kinds
FilterSets ==
    { {}, {"ChatMessage"}, {"UserBanned"}, {"ChatMessage", "PollUpdate"} }

PipeOptions ==
    { [ autoReconnect |-> TRUE,
        reconnectInterval |-> DefaultReconnectInterval,
        enableBuffer |-> e,
        bufferSize |-> n,
        filteredEvents |-> fe ] :
      e \in BOOLEAN, n \in 0 .. MaxBufferSize, fe \in FilterSets }

\* a manager constructed with some options, connected to channel "a"
PipeInit ==
    /\ connectionState = "connected"
    /\ channelName = "a"
    /\ channelId = RoomId("a")
    /\ ws = [rs |-> "OPEN", closedByUs |-> FALSE, subscribed |-> TRUE]
    /\ isManualDisconnect = FALSE
    /\ reconnectTimer = NoTimer
    /\ messageBuffer = << >>
    /\ options \in PipeOptions
    /\ orphans = EmptyBag
    /\ pendingTimers = {}
    /\ delays = NoDelays
    /\ pending = EmptyBag
    /\ emitted = << >>
    /\ sent = << >>
    /\ op = Op("new", "", "", FALSE)
    /\ quiesced = FALSE
    /\ arrived = << >>
    /\ NewEmitter

\* ws.onmessage of the held socket, the frame recorded in arrived
Deliver(frame) ==
    /\ ws.rs = "OPEN"
    /\ messageBuffer = << >> \/ Len(arrived) < MaxFrames
    /\ Commit([handleMessage(Manager, frame) EXCEPT
                  !.arrived = IF messageBuffer = << >> THEN << frame >>
                              ELSE Append(arrived, frame)],
              Op("message", "", "", TRUE), quiesced)

\* clearMessageBuffer()
ClearMessageBuffer ==
    Commit([Manager EXCEPT !.messageBuffer = << >>, !.arrived = << >>],
           Op("clearMessageBuffer", "", "", FALSE), quiesced)

PipeNext ==
    \/ \E frame \in PipeFrames : Deliver(frame)
    \/ ClearMessageBuffer

PipeSpec == PipeInit /\ [][PipeNext]_vars

\* ------------------------------------------------------------------------
\* The decoder on every sort of frame
\* ------------------------------------------------------------------------
\* envelope event members: the ten names, control names, an unknown name, an
\* empty name and no name
DecodeEvents ==
    DOMAIN KickEventTypes \cup ControlEventNames
        \cup {UnknownEventName, "", Undefined}

\* envelope data members: JSON documents, a text that is not JSON, an empty
\* text and no data
DecodeData == DOMAIN JsonDocs \cup BadJsonData \cup {"", Undefined}

DecodeFrames ==
    { Envelope(e, d) : e \in DecodeEvents, d \in DecodeData }
        \cup { TextFrame(t) : t \in BlankTexts \cup {"not json"} }

\* the ten domain kinds
KickKinds == { KickEventTypes[e] : e \in DOMAIN KickEventTypes }

\* managers that do not buffer, with no filter, one kind or two kinds allowed
DecodeOptions ==
    { o \in PipeOptions : ~o.enableBuffer /\ o.bufferSize = MaxBufferSize }

DecodeInit ==
    /\ PipeInit
    /\ options \in DecodeOptions

DecodeNext == \E frame \in DecodeFrames : Deliver(frame)

DecodeSpec == DecodeInit /\ [][DecodeNext]_vars

\* ------------------------------------------------------------------------
\* Claims
\* ------------------------------------------------------------------------
\* the `error` publish of handleConnectionError, seen in state st
ErrorEvent(st) ==
    [ev |-> "error", arg |-> ConnectionError, st |-> st,
     buf |-> messageBuffer]

\* the `ready` publish of subscribeToChannel
ReadyEvent ==
    [ev |-> "ready", arg |-> [channel |-> channelName], st |-> "connected",
     buf |-> messageBuffer]

\* the `disconnect` publish of handleDisconnect for the close event ev
DisconnectEvent(ev) ==
    [ev |-> "disconnect", arg |-> ev, st |-> "disconnected",
     buf |-> messageBuffer]

\* C1: connect(channel) called while the state is `connecting` or `connected`
\* starts no channel lookup, opens no socket, publishes nothing and leaves the
\* state, the stored channel name, the manual-disconnect flag and the
\* reconnect timer as they were.
C1_ConnectIsNoOpWhileConnecting ==
    [][ (op'.name = "connect" /\ connectionState \in {"connecting", "connected"})
        => /\ UNCHANGED << connectionState, channelName, channelId,
                           isManualDisconnect, reconnectTimer, pendingTimers,
                           pending, ws, orphans >>
           /\ op'.result = "noop"
           /\ emitted' = << >>
           /\ sent' = << >> ]_vars

\* connect("b") was refused while an attempt for another channel was live
C1_Witness ==
    /\ op.name = "connect"
    /\ op.result = "noop"
    /\ op.by # channelName
    /\ connectionState = "connecting"
    /\ BagCardinality(pending) = 1

\* C2 (as claimed): when a socket reports open, one subscribe frame naming
\* the resolved room is sent on that socket, the state becomes `connected`
\* and `ready` is published with the channel name while the state is
\* `connected`.
C2_OpenSubscribesOnThatSocket ==
    op.name = "open"
    => /\ op.held
       /\ sent = << SubscribeFrame(Manager) >>
       /\ ws.subscribed
       /\ connectionState = "connected"
       /\ emitted = << ReadyEvent >>

C5_CloseSchedulesUnlessCallerInitiated ==
    [][ (op'.name = "close" \/ (op'.name = "disconnect" /\ op'.result = "sync"))
        => /\ emitted' = << DisconnectEvent(IF op'.by = "" /\ op'.name = "close"
                                            THEN LostClose ELSE ManualClose) >>
           /\ IF /\ options.autoReconnect
                 /\ op'.name = "close"
                 /\ op'.by # "disconnect"
                 /\ ~isManualDisconnect
              THEN /\ connectionState' = "reconnecting"
                   /\ reconnectTimer' \in pendingTimers'
              ELSE /\ connectionState' = "disconnected"
                   /\ pendingTimers' \subseteq pendingTimers ]_vars

\* a lost connection was reported with autoReconnect on and no manual
\* disconnect in force
C6_Armed ==
    /\ op.name = "close"
    /\ op.by # "disconnect"
    /\ options.autoReconnect
    /\ ~isManualDisconnect

\* the reconnect timer fired and started a lookup of the stored channel
C6_Fired ==
    /\ op.name = "timer"
    /\ connectionState = "connecting"
    /\ BagIn([by |-> "timer", name |-> channelName], pending)

\* C6: with autoReconnect on, a non-manual socket close leaves the state
\* `reconnecting` with the reconnect timer armed, and unless disconnect() is
\* called the timer eventually fires and starts a new connection attempt
\* (state `connecting`) that resolves the stored channel again.
C6_ReconnectTimerFires ==
    /\ [](C6_Armed => (connectionState = "reconnecting"
                          /\ reconnectTimer \in pendingTimers))
    /\ (C6_Armed ~> (C6_Fired \/ op.name = "disconnect"))

\* the timer fired after the held socket had closed and no disconnect()
C6_Witness ==
    /\ C6_Fired
    /\ ws.rs = "CLOSED"
    /\ options.autoReconnect
    /\ ~isManualDisconnect
    /\ pendingTimers = {}

\* C7 (as claimed): with autoReconnect on and no disconnect(), every failed
\* connection attempt, whether connect() or the reconnect timer started it,
\* is followed by another reconnect being scheduled.
C7_EveryFailureReschedules ==
    (op.name = "resolve" /\ op.result = "rejected"
        /\ options.autoReconnect /\ ~isManualDisconnect)
    => connectionState = "reconnecting" /\ reconnectTimer \in pendingTimers

\* C8: from the return of disconnect() until connect() next starts an
\* attempt, no reconnect timer is armed or pending and none fires, whatever
\* the autoReconnect setting.
C8_NoReconnectAfterDisconnect ==
    quiesced => /\ pendingTimers = {}
                /\ reconnectTimer = NoTimer
                /\ op.name # "timer"
                /\ connectionState # "reconnecting"

\* the socket closed by disconnect() reported its close with autoReconnect on
C8_Witness ==
    /\ quiesced
    /\ op.name = "close"
    /\ op.by = "disconnect"
    /\ options.autoReconnect
    /\ emitted = << DisconnectEvent(ManualClose) >>

\* C9 (as claimed): disconnect() returns with state `disconnected`, no timer
\* pending and no socket held; a held socket that was connecting or open is
\* closed with code 1000, and the close that results publishes exactly one
\* `disconnect` and leaves the state `disconnected` (isConnected() false).
C9_DisconnectLeavesDisconnected ==
    [][ /\ op'.name = "disconnect"
           => /\ connectionState' = "disconnected"
              /\ pendingTimers' = {}
              /\ reconnectTimer' = NoTimer
              /\ ws' = NullSocket
              /\ ~isConnected'
              /\ ws.rs \in {"CONNECTING", "OPEN"}
                 => IF op'.result = "sync"
                    THEN emitted' = << DisconnectEvent(ManualClose) >>
                    ELSE BagIn(closeSocket(ws), orphans')
        /\ (op'.name = "close" /\ op'.by = "disconnect")
           => /\ emitted' = << DisconnectEvent(ManualClose) >>
              /\ connectionState' = "disconnected"
              /\ ~isConnected' ]_vars

\* C10 (as claimed): from the return of disconnect() until connect() is next
\* called the state stays `disconnected` and nothing but `disconnect` is
\* published: no `ready`, no `error`, no `rawMessage`, no domain event.
C10_SilentAfterDisconnect ==
    quiesced => /\ connectionState = "disconnected"
                /\ \A i \in DOMAIN emitted : emitted[i].ev = "disconnect"

\* C11 (as claimed): on a socket error event the state becomes `error`, one
\* `error` event is published in that state, and a reconnect is scheduled
\* when autoReconnect is on and no manual disconnect is in force.
C11_SocketErrorSetsError ==
    op.name = "error"
    => /\ emitted = << [ev |-> "error", arg |-> SocketErrorEvent,
                         st |-> "error", buf |-> messageBuffer] >>
       /\ IF options.autoReconnect /\ ~isManualDisconnect
          THEN connectionState = "reconnecting" /\ reconnectTimer \in pendingTimers
          ELSE connectionState = "error"

\* the `rawMessage` publish of handleMessage for a frame, seen with buffer buf
RawMessageEvent(frame, buf) ==
    [ev |-> "rawMessage", arg |-> frame, st |-> connectionState, buf |-> buf]

\* C12: for every inbound frame, whatever its sort, `rawMessage` is the first
\* publish, it is published once with the frame as it arrived and its
\* handlers see the buffer as it was before the frame is appended.
C12_RawMessageFirst ==
    [][ op'.name = "message"
        => /\ Len(emitted') >= 1
           /\ emitted'[1] = RawMessageEvent(arrived'[Len(arrived')], messageBuffer)
           /\ \A i \in 2 .. Len(emitted') : emitted'[i].ev # "rawMessage" ]_vars

\* a frame was published raw, buffered and then published decoded
C12_Witness ==
    /\ op.name = "message"
    /\ options.enableBuffer
    /\ Len(emitted) = 2
    /\ emitted[1].ev = "rawMessage"
    /\ emitted[1].buf # messageBuffer
    /\ emitted[2].buf = messageBuffer

\* the publishes of the last callback under a domain kind
DomainEvents == SelectSeq(emitted, LAMBDA e : e.ev \in KickKinds)

\* the frame the last delivery handed to the pipeline
LastFrame == arrived[Len(arrived)]

\* C13: with a non-empty filteredEvents list a frame whose decoded kind is
\* not in the list publishes no domain event and is still published as
\* `rawMessage`; a frame whose kind is in the list, and with an empty list
\* every frame that decodes, is published once under its kind.
C13_FilterIsAllowList ==
    op.name = "message"
    => LET kind == parseMessage(LastFrame).type
       IN  /\ emitted[1].ev = "rawMessage"
           /\ emitted[1].arg = LastFrame
           /\ IF kind = "null" THEN DomainEvents = << >>
              ELSE IF options.filteredEvents # {}
                      /\ kind \notin options.filteredEvents
              THEN DomainEvents = << >>
              ELSE /\ Len(DomainEvents) = 1
                   /\ DomainEvents[1].ev = kind

\* a ban frame was suppressed by an allow-list that names only ChatMessage
C13_Witness ==
    /\ op.name = "message"
    /\ options.filteredEvents = {"ChatMessage"}
    /\ LastFrame = Envelope(BanEventName, "{ban}")
    /\ Len(emitted) = 1
    /\ emitted[1].ev = "rawMessage"

\* the upstream event name of a domain kind
UpstreamName(kind) == "App\\Events\\" \o kind \o "Event"

\* the documents that carry each kind's payload fields
WellFormedData ==
    [ ChatMessage |-> {"{chat}", "{chat-emote}"},
      MessageDeleted |-> {"{deleted}"},
      UserBanned |-> {"{ban}", "{ban-alt}"},
      UserUnbanned |-> {"{ban}", "{unban-alt}"},
      Subscription |-> {"{sub}"},
      GiftedSubscriptions |-> {"{gift}"},
      PinnedMessageCreated |-> {"{pinned}"},
      StreamHost |-> {"{host}"},
      PollUpdate |-> {"{poll}"},
      PollDelete |-> {"{poll}"} ]

\* C14: a well-formed frame under one of the ten upstream event names, on an
\* instance whose filter allows its kind, is published once after its
\* `rawMessage`, under the kind its name maps to and under no other, with
\* the normalized payload (for the chat message of the test suite: sender
\* testuser, content "Hello world!").
C14_OnePublishUnderMappedKind ==
    \A kind \in DOMAIN WellFormedData :
        ( /\ op.name = "message"
          /\ LastFrame.json
          /\ LastFrame.event = UpstreamName(kind)
          /\ LastFrame.data \in WellFormedData[kind]
          /\ options.filteredEvents = {} \/ kind \in options.filteredEvents )
        => /\ Len(emitted) = 2
           /\ emitted[1].ev = "rawMessage"
           /\ emitted[2].ev = kind
           /\ emitted[2].arg = ParsePayload(kind, JsonDocs[LastFrame.data])
           /\ LastFrame.data = "{chat}"
              => /\ emitted[2].arg.sender.username = "testuser"
                 /\ emitted[2].arg.content = << Text("Hello world!") >>
           /\ LastFrame.data = "{chat-emote}"
              => /\ emitted[2].arg.content = << Text("gg "), Text("Kappa") >>
                 /\ emitted[2].arg.sender.identity.color = "#ffffff"
                 /\ emitted[2].arg.chatroom.id = "0"

\* a poll update passed an allow-list that names it and was published
C14_Witness ==
    /\ op.name = "message"
    /\ LastFrame = Envelope(UpstreamName("PollUpdate"), "{poll}")
    /\ "PollUpdate" \in options.filteredEvents
    /\ Len(emitted) = 2
    /\ emitted[2].ev = "PollUpdate"
    /\ emitted[2].arg.poll_id = "p1"

\* the frames C15 lists: empty or blank text, text that is not JSON, an
\* envelope without or with an empty event or data member, a control name,
\* a name that is none of the ten
Rejected(frame) ==
    \/ frame.raw \in {"", "  "}
    \/ ~frame.json
    \/ frame.event \in {Undefined, ""}
    \/ frame.data \in {Undefined, ""}
    \/ frame.event \in ControlEventNames
    \/ frame.event \notin { UpstreamName(kind) : kind \in DOMAIN WellFormedData }

\* C15: a frame that is empty, not JSON, lacks or has an empty event or data
\* member, has a control name (with any payload) or an unknown name decodes
\* to null; its delivery publishes `rawMessage` and nothing else (no domain
\* event, no `error`) and leaves the connection state and the socket as they
\* were.
C15_RejectedFrameIsSilent ==
    [][ (op'.name = "message" /\ Rejected(arrived'[Len(arrived')]))
        => /\ parseMessage(arrived'[Len(arrived')]) = NullEvent
           /\ Len(emitted') = 1
           /\ emitted'[1].ev = "rawMessage"
           /\ connectionState' = connectionState
           /\ ws' = ws
           /\ reconnectTimer' = reconnectTimer ]_vars

\* a control frame with a chat payload was delivered and only `rawMessage`
\* was published
C15_Witness ==
    /\ op.name = "message"
    /\ LastFrame = Envelope("pusher:connection_established", "{chat}")
    /\ options.filteredEvents = {}
    /\ Len(emitted) = 1
    /\ connectionState = "connected"

\* C16: with enableBuffer on, the delivery of any frame (control, filtered
\* out and malformed ones too) pushes that frame once onto the end of the
\* buffer, after which at most the oldest entry is evicted, and nothing is
\* evicted below capacity; with enableBuffer off the buffer stays as it was.
C16_EveryFrameIsBuffered ==
    [][ op'.name = "message"
        => LET pushed == Append(messageBuffer, arrived'[Len(arrived')])
           IN  IF options.enableBuffer
               THEN /\ messageBuffer' \in {pushed, Tail(pushed)}
                    /\ Len(messageBuffer) < options.bufferSize
                       => messageBuffer' = pushed
               ELSE messageBuffer' = messageBuffer ]_vars

\* a ban filtered out, then a control frame, are both in the buffer in
\* arrival order
C16_Witness ==
    /\ op.name = "message"
    /\ options.enableBuffer
    /\ options.filteredEvents = {"ChatMessage"}
    /\ messageBuffer = << Envelope(BanEventName, "{ban}"),
                          Envelope("pusher:connection_established", "{}") >>

\* the last n elements of a sequence, all of them if it has fewer
LastN(seq, n) ==
    IF Len(seq) <= n THEN seq ELSE SubSeq(seq, Len(seq) - n + 1, Len(seq))

\* C17: with buffering on and a fixed capacity N >= 1 the buffer holds the
\* last N frames that arrived since it was empty, in arrival order, and all
\* of them while fewer than N have arrived.
C17_BufferHoldsLastN ==
    (options.enableBuffer /\ options.bufferSize >= 1)
    => messageBuffer = LastN(arrived, options.bufferSize)

\* capacity 2, three different frames arrived, the oldest was evicted
C17_Witness ==
    /\ options.enableBuffer
    /\ options.bufferSize = 2
    /\ Len(arrived) = 3
    /\ arrived[1] # arrived[2] /\ arrived[2] # arrived[3]
    /\ messageBuffer = << arrived[2], arrived[3] >>

\* ------------------------------------------------------------------------
\* The connection lifecycle of an instance that buffers
\* ------------------------------------------------------------------------
\* the bufferSize this instance is constructed with
BufCapacity == 2

BufOptions ==
    { [ autoReconnect |-> TRUE,
        reconnectInterval |-> DefaultReconnectInterval,
        enableBuffer |-> TRUE,
        bufferSize |-> BufCapacity,
        filteredEvents |-> {} ] }

\* `new WebSocketManager({ enableBuffer: true, bufferSize })`
BufInit ==
    /\ connectionState = "disconnected"
    /\ channelName = ""
    /\ channelId = 0
    /\ ws = NullSocket
    /\ isManualDisconnect = FALSE
    /\ reconnectTimer = NoTimer
    /\ messageBuffer = << >>
    /\ options \in BufOptions
    /\ orphans = EmptyBag
    /\ pendingTimers = {}
    /\ delays = NoDelays
    /\ pending = EmptyBag
    /\ emitted = << >>
    /\ sent = << >>
    /\ op = Op("new", "", "", FALSE)
    /\ quiesced = FALSE
    /\ arrived = << >>
    /\ NewEmitter

\* `parsed && parsed.type === eventType` for a buffered frame
ParsedAs(frame, eventType) ==
    LET parsed == parseMessage(frame)
    IN  parsed # NullEvent /\ parsed.type = eventType

\* an export that goes by the envelope's event name alone
exportRawMessagesByEventType_byName(m, eventType) ==
    SelectSeq(m.messageBuffer,
              LAMBDA frame : frame.json /\ EventTypeOf(frame.event) = eventType)

\* exportRawMessagesByEventType(eventType): the array it returns
exportRawMessagesByEventType(m, eventType) ==
    SelectSeq(m.messageBuffer, LAMBDA frame : ParsedAs(frame, eventType))

\* clearRawMessagesByEventType(eventType)
clearRawMessagesByEventType(m, eventType) ==
    [m EXCEPT !.messageBuffer =
        SelectSeq(@, LAMBDA frame : ~ParsedAs(frame, eventType))]

\* Array.prototype.slice(start, end) for 0 <= start and 0 <= end
Slice(array, start, end) ==
    LET to == IF end > Len(array) THEN Len(array) ELSE end
    IN  SubSeq(array, start + 1, to)

\* exportRawMessagesInRange(startIndex, endIndex?): the array it returns.
\* args holds endIndex only when the caller passed it; `endIndex ? :` takes
\* the second branch for an omitted endIndex and for 0.
exportRawMessagesInRange(m, args) ==
    LET buffer == m.messageBuffer
    IN  IF Has(args, "endIndex") /\ args.endIndex # 0
        THEN Slice(buffer, args.startIndex, args.endIndex)
        ELSE Slice(buffer, args.startIndex, Len(buffer))

\* clearRawMessagesByEventType(eventType)
ClearRawMessagesByEventType(eventType) ==
    Commit(clearRawMessagesByEventType(Manager, eventType),
           Op("clearRawMessagesByEventType", eventType, "", FALSE), quiesced)

\* exportRawMessagesByEventType(eventType), its return value in op.result
ExportRawMessagesByEventType(eventType) ==
    Commit(Manager,
           Op("exportRawMessagesByEventType", eventType,
              exportRawMessagesByEventType(Manager, eventType), FALSE),
           quiesced)

\* exportRawMessagesInRange(...args), its return value in op.result
ExportRawMessagesInRange(args) ==
    Commit(Manager,
           Op("exportRawMessagesInRange", args,
              exportRawMessagesInRange(Manager, args), FALSE),
           quiesced)

BufNext ==
    \/ Connect("a")
    \/ \E sync \in BOOLEAN : Disconnect(sync)
    \/ \E p \in BagToSet(pending), outcome \in ResolveOutcomes : Resolve(p, outcome)
    \/ \E s \in SocketRefs, outcome \in {"sent", "throw", "dropped", "nosocket"} :
          SocketOpen(s, outcome)
    \/ \E s \in SocketRefs, frame \in Frames : SocketMessage(s, frame)
    \/ \E s \in SocketRefs : SocketError(s)
    \/ \E s \in SocketRefs : SocketClose(s)
    \/ \E t \in pendingTimers : TimerFire(t)
    \/ ClearMessageBuffer
    \/ \E eventType \in {"ChatMessage", "UserBanned"} :
          ClearRawMessagesByEventType(eventType)

BufSpec == BufInit /\ [][BufNext]_vars

\* the operations that may change the buffer
BufferOperations ==
    {"message", "clearMessageBuffer", "clearRawMessagesByEventType"}

\* C18: connect(), disconnect(), the open, close and error of a socket, the
\* continuation of a lookup and the firing of the reconnect timer leave the
\* buffer as it was; only a delivered frame and the two clear operations
\* change it, and clearMessageBuffer() leaves it empty in whatever state the
\* connection is.
C18_BufferIgnoresConnection ==
    [][ /\ op'.name \notin BufferOperations => messageBuffer' = messageBuffer
        /\ op'.name = "clearMessageBuffer" => messageBuffer' = << >>
        /\ op'.name = "clearRawMessagesByEventType"
           => messageBuffer' =
                SelectSeq(messageBuffer,
                          LAMBDA frame : frame.event # UpstreamName(op'.by)) ]_vars

\* two buffered frames outlived a lost connection and the reconnect it
\* scheduled
C18_Witness ==
    /\ op.name = "close"
    /\ connectionState = "reconnecting"
    /\ reconnectTimer \in pendingTimers
    /\ Len(messageBuffer) = 2

\* ------------------------------------------------------------------------
\* The event emitter
\* ------------------------------------------------------------------------
\* how deep handlers nest emits, how many onceWrappers a run creates and how
\* many listeners an event has at a time
MaxDepth == 1
MaxOnce == 2
MaxRegistered == 3

\* the functions callers register: one that returns, one that throws, one
\* that emits the event again from inside the dispatch, one that takes the
\* first off the event and one that puts the first on the event
Handlers == {"listener", "thrower", "reemitter", "remover", "adder"}

\* a function registered as it is, and the k-th onceWrapper closure around one
Plain(h) == [fn |-> h, once |-> 0]
OnceWrapper(h, k) == [fn |-> h, once |-> k]

\* Set.has and Set.delete on a set kept in insertion order
Contains(listeners, l) == \E i \in DOMAIN listeners : listeners[i] = l
Without(listeners, l) == SelectSeq(listeners, LAMBDA x : x # l)

\* The Map `events` is the pair of eventKeys, the names it has an entry for,
\* and events, the listener set of each name; the set of a name without
\* entry reads as empty.

\* `if (!this.events.has(event)) this.events.set(event, new Set())`
EnsureEntry(m, event) ==
    IF event \in m.eventKeys THEN m
    ELSE [m EXCEPT !.eventKeys = @ \cup {event}, !.events[event] = << >>]

\* this.events.delete(event)
DeleteEntry(m, event) ==
    [m EXCEPT !.eventKeys = @ \ {event}, !.events[event] = << >>]

\* on(event, listener)
on(m, event, l) ==
    LET m1 == EnsureEntry(m, event)
    IN  IF Contains(m1.events[event], l) THEN m1
        ELSE [m1 EXCEPT !.events[event] = Append(@, l)]

\* an off that drops every listener of the event
off_dropsEvent(m, event, l) == DeleteEntry(m, event)

\* an off that keeps the entry of an event whose last listener it removed
off_keepsEntry(m, event, l) ==
    IF event \notin m.eventKeys THEN m
    ELSE [m EXCEPT !.events[event] = Without(@, l)]

\* off(event, listener)
off(m, event, l) ==
    IF event \notin m.eventKeys THEN m
    ELSE LET m1 == [m EXCEPT !.events[event] = Without(@, l)]
         IN  IF m1.events[event] = << >> THEN DeleteEntry(m1, event) ELSE m1

\* removeAllListeners(event?): of one event, or of all when event is omitted
\* (or falsy)
removeAllListeners(m, event) ==
    IF Truthy(event) THEN DeleteEntry(m, event)
    ELSE [m EXCEPT !.eventKeys = {},
                   !.events = [e \in DOMAIN @ |-> << >>]]

\* prependListener(event, listener): the set is rebuilt with the listener
\* first
prependListener(m, event, l) ==
    LET m1 == EnsureEntry(m, event)
    IN  [m1 EXCEPT !.events[event] = << l >> \o Without(@, l)]

\* eventNames(): the names, without their order
eventNames(m) == m.eventKeys

\* once(event, listener)
once(m, event, h) ==
    on([m EXCEPT !.wrappers = @ + 1], event, OnceWrapper(h, m.wrappers + 1))

\* listenerCount(event)
listenerCount(m, event) == Len(m.events[event])

\* a dispatch loop without try/catch
TryCatch_rethrows(r) == r

\* try { listener(...args) } catch (error) { console.error(...) }
TryCatch(r) == [r EXCEPT !.threw = FALSE]

RECURSIVE emitFrom(_, _, _)
RECURSIVE Dispatch(_, _, _, _, _)

\* the body of a registered function, called at a nesting depth
Run(m, event, h, depth) ==
    CASE h = "thrower" -> [m |-> m, threw |-> TRUE]
      [] h = "reemitter" ->
            IF depth < MaxDepth
            THEN LET r == emitFrom(m, event, depth + 1)
                 IN  [m |-> r.m, threw |-> r.threw]
            ELSE [m |-> m, threw |-> FALSE]
      [] h = "remover" ->
            [m |-> off(m, event, Plain("listener")), threw |-> FALSE]
      [] h = "adder" ->
            [m |-> on(m, event, Plain("listener")), threw |-> FALSE]
      [] OTHER -> [m |-> m, threw |-> FALSE]

\* listener(...args): a onceWrapper takes itself off and calls its function
Invoke(m, event, l, depth) ==
    LET m1 == IF l.once > 0 THEN off(m, event, l) ELSE m
        m2 == [m1 EXCEPT
                  !.invoked = Append(@, [fn |-> l.fn, once |-> l.once,
                                         depth |-> depth]),
                  !.fired = IF l.once > 0 THEN @ (+) SetToBag({l.once}) ELSE @]
    IN  Run(m2, event, l.fn, depth)

\* a dispatch loop that walks the listener set itself, not a copy of it
Dispatch_live(m, event, listenersArray, i, depth) ==
    IF i > Len(m.events[event]) THEN [m |-> m, threw |-> FALSE]
    ELSE LET r == TryCatch(Invoke(m, event, m.events[event][i], depth))
         IN  IF r.threw THEN r
             ELSE Dispatch(r.m, event, listenersArray, i + 1, depth)

\* `for (const listener of listenersArray)` from the i-th listener on
Dispatch(m, event, listenersArray, i, depth) ==
    IF i > Len(listenersArray) THEN [m |-> m, threw |-> FALSE]
    ELSE LET r == TryCatch(Invoke(m, event, listenersArray[i], depth))
         IN  IF r.threw THEN r
             ELSE Dispatch(r.m, event, listenersArray, i + 1, depth)

\* emit(event, ...args), called at a nesting depth
emitFrom(m, event, depth) ==
    IF m.events[event] = << >>
    THEN [m |-> m, threw |-> FALSE, result |-> FALSE]
    ELSE LET r == Dispatch(m, event, m.events[event], 1, depth)
         IN  [m |-> r.m, threw |-> r.threw, result |-> TRUE]

EmitterInit == Init /\ options.autoReconnect

\* the emitter at the call of one of its methods from outside any dispatch:
\* no listener has been called yet
Called == [Manager EXCEPT !.invoked = << >>]

On(event, h) ==
    /\ listenerCount(Manager, event) < MaxRegistered
    /\ Commit(on(Called, event, Plain(h)), Op("on", event, h, FALSE), quiesced)

Once(event, h) ==
    /\ listenerCount(Manager, event) < MaxRegistered
    /\ wrappers < MaxOnce
    /\ Commit(once(Called, event, h), Op("once", event, h, FALSE), quiesced)

\* off(event, h); op.held tells whether h was a listener of the event
Off(event, h) ==
    Commit(off(Called, event, Plain(h)),
           Op("off", event, h, Contains(events[event], Plain(h))), quiesced)

\* emit(event) called from outside any dispatch
Emit(event) ==
    LET r == emitFrom(Called, event, 0)
    IN  Commit(r.m,
               Op("emit", event,
                  IF r.threw THEN "threw" ELSE IF r.result THEN "true" ELSE "false",
                  FALSE),
               quiesced)

EmitterNext ==
    \/ \E event \in EventNames, h \in Handlers : On(event, h)
    \/ \E event \in EventNames, h \in Handlers : Once(event, h)
    \/ \E event \in EventNames, h \in Handlers : Off(event, h)
    \/ \E event \in EventNames : Emit(event)

EmitterSpec == EmitterInit /\ [][EmitterNext]_vars

\* the calls an emit made itself, not those of emits nested in it
OwnCalls(calls) == SelectSeq(calls, LAMBDA c : c.depth = 0)

\* C19: an emit of an event that has listeners calls every listener of its
\* snapshot once, in registration order, whether or not one of them throws
\* or takes another one off, returns true and throws nothing.
C19_ThrowingHandlerIsContained ==
    [][ (op'.name = "emit" /\ events[op'.by] # << >>)
        => /\ op'.result = "true"
           /\ OwnCalls(invoked')
                = [i \in DOMAIN events[op'.by] |->
                      [fn |-> events[op'.by][i].fn,
                       once |-> events[op'.by][i].once,
                       depth |-> 0]] ]_vars

\* the first listener threw and the two after it were still called
C19_Witness ==
    /\ op.name = "emit"
    /\ op.result = "true"
    /\ Len(invoked) = 3
    /\ invoked[1].fn = "thrower"
    /\ invoked[2].fn = "listener"
    /\ invoked[3].once > 0

\* C20: the function given to once() is called once over all the emits after
\* its registration, nested ones included, and once called its wrapper is
\* no longer registered.
C20_OnceFiresOnce ==
    \A k \in 1 .. wrappers :
        /\ CopiesIn(k, fired) <= 1
        /\ CopiesIn(k, fired) >= 1
           => \A event \in EventNames :
                 \A i \in DOMAIN events[event] : events[event][i].once # k

\* every listener the emitter model can hold
Listeners ==
    { Plain(h) : h \in Handlers }
        \cup { OnceWrapper(h, k) : h \in Handlers, k \in 1 .. MaxOnce }

\* how often an emit itself called the listener l
OwnCount(calls, l) ==
    Len(SelectSeq(calls, LAMBDA c : c.depth = 0 /\ c.fn = l.fn /\ c.once = l.once))

\* C21: an emit calls each listener registered when it was called once, also
\* one that a listener before it has taken off, and calls no listener that
\* was put on during the dispatch.
C21_DispatchOverSnapshot ==
    [][ op'.name = "emit"
        => \A l \in Listeners :
              OwnCount(invoked', l)
                = IF Contains(events[op'.by], l) THEN 1 ELSE 0 ]_vars

\* remover took listener off before its turn and listener was still called;
\* adder put it on again and it was not called a second time
C21_Witness ==
    /\ op.name = "emit"
    /\ Len(invoked) = 3
    /\ invoked[1].fn = "remover"
    /\ invoked[2] = [fn |-> "listener", once |-> 0, depth |-> 0]
    /\ invoked[3].fn = "adder"
    /\ events["message"] = << Plain("remover"), Plain("adder"), Plain("listener") >>

\* ------------------------------------------------------------------------
\* The listener registry with two events
\* ------------------------------------------------------------------------
RegistryEvents == {"message", "error"}

\* the functions registered in the registry model
RegistryHandlers == {"listener", "thrower"}

\* `new EventEmitter()` used with two events
RegistryInit ==
    /\ connectionState = "disconnected"
    /\ channelName = ""
    /\ channelId = 0
    /\ ws = NullSocket
    /\ isManualDisconnect = FALSE
    /\ reconnectTimer = NoTimer
    /\ messageBuffer = << >>
    /\ options \in { o \in InitialOptions : o.autoReconnect }
    /\ orphans = EmptyBag
    /\ pendingTimers = {}
    /\ delays = NoDelays
    /\ pending = EmptyBag
    /\ emitted = << >>
    /\ sent = << >>
    /\ op = Op("new", "", "", FALSE)
    /\ quiesced = FALSE
    /\ arrived = << >>
    /\ events = [event \in RegistryEvents |-> << >>]
    /\ eventKeys = {}
    /\ wrappers = 0
    /\ invoked = << >>
    /\ fired = EmptyBag

RegistryNext ==
    \/ \E event \in RegistryEvents, h \in RegistryHandlers : On(event, h)
    \/ \E event \in RegistryEvents : Once(event, "listener")
    \/ \E event \in RegistryEvents, h \in RegistryHandlers : Off(event, h)
    \/ \E event \in RegistryEvents : Emit(event)

RegistrySpec == RegistryInit /\ [][RegistryNext]_vars

BanPublished(kind) ==
    /\ op.name = "message"
    /\ LastFrame.json
    /\ LastFrame.event = UpstreamName(kind)
    /\ LastFrame.data \in DOMAIN JsonDocs
    /\ options.filteredEvents = {} \/ kind \in options.filteredEvents

\* the document has the member
Present(doc, f) == f \in DOMAIN doc

\* the document has the member and it is not the empty string
NonEmpty(doc, f) == f \in DOMAIN doc /\ doc[f] # ""

\* the first of the two members that is there (and, if asked, not empty),
\* else "unknown"
FirstOf(doc, first, second, nonEmpty) ==
    LET Accepted(f) == IF nonEmpty THEN NonEmpty(doc, f) ELSE Present(doc, f)
    IN  IF Accepted(first) THEN doc[first]
        ELSE IF Accepted(second) THEN doc[second]
        ELSE "unknown"

\* C23 as stated: the published username of a ban is `username` when the
\* payload has that member, else `banned_username` when it has that one,
\* else "unknown"; an unban likewise with `unbanned_username`.
C23_UsernameWhenPresent ==
    /\ BanPublished("UserBanned")
       => emitted[2].arg.username
            = FirstOf(JsonDocs[LastFrame.data], "username", "banned_username",
                      FALSE)
    /\ BanPublished("UserUnbanned")
       => emitted[2].arg.username
            = FirstOf(JsonDocs[LastFrame.data], "username", "unbanned_username",
                      FALSE)

\* C23 amended: the published username of a ban is `username` when the
\* payload has that member and it is not empty, else `banned_username` when
\* that one is there and not empty, else "unknown"; an unban likewise with
\* `unbanned_username`.
C23_UsernameWhenNonEmpty ==
    /\ BanPublished("UserBanned")
       => /\ Len(emitted) = 2
          /\ emitted[2].ev = "UserBanned"
          /\ emitted[2].arg.username
               = FirstOf(JsonDocs[LastFrame.data], "username", "banned_username",
                         TRUE)
    /\ BanPublished("UserUnbanned")
       => /\ Len(emitted) = 2
          /\ emitted[2].ev = "UserUnbanned"
          /\ emitted[2].arg.username
               = FirstOf(JsonDocs[LastFrame.data], "username", "unbanned_username",
                         TRUE)

\* a ban whose `username` is empty was published under its `banned_username`
C23_Witness ==
    /\ BanPublished("UserBanned")
    /\ LastFrame.data = "{ban-empty}"
    /\ emitted[2].arg.username = "troll2"

\* ------------------------------------------------------------------------
\* KickWebSocket: the category subscriptions
\* ------------------------------------------------------------------------
\* the event lists of onAllEvents, onChatEvents, onUserEvents, onStreamEvents
AllEvents ==
    << "ChatMessage", "MessageDeleted", "UserBanned", "UserUnbanned",
       "Subscription", "GiftedSubscriptions", "PinnedMessageCreated",
       "StreamHost", "PollUpdate", "PollDelete" >>

ChatEvents == << "ChatMessage", "MessageDeleted", "PinnedMessageCreated" >>

\* a user list that has the chat message too
UserEvents_withChat ==
    << "UserBanned", "UserUnbanned", "Subscription", "GiftedSubscriptions",
       "ChatMessage" >>

UserEvents ==
    << "UserBanned", "UserUnbanned", "Subscription", "GiftedSubscriptions" >>

StreamEvents == << "StreamHost", "PollUpdate", "PollDelete" >>

\* the events the manager publishes about the connection and the raw frame
LifecycleEvents == {"ready", "disconnect", "error", "rawMessage"}

\* the functions handed to the four subscriptions, one each
CategoryHandlers == {"chat", "user", "stream"}

\* `list.forEach((event) => this.on(event, handler))` from the i-th on
RECURSIVE OnEach(_, _, _, _)
OnEach(m, list, i, h) ==
    IF i > Len(list) THEN m
    ELSE OnEach(on(m, list[i], Plain(h)), list, i + 1, h)

\* the dispatches of the publishes a callback made, from the i-th on
RECURSIVE DispatchEmitted(_, _)
DispatchEmitted(m, i) ==
    IF i > Len(m.emitted) THEN m
    ELSE DispatchEmitted(emitFrom(m, m.emitted[i].ev, 0).m, i + 1)

\* the well-formed frames of each kind, and a control frame
CategoryFrames ==
    UNION { { Envelope(UpstreamName(kind), d) : d \in WellFormedData[kind] } :
            kind \in DOMAIN WellFormedData }
        \cup { Envelope("pusher:connection_established", "{}") }

\* `new KickWebSocket(options)`, connected to channel "a"
CategoryInit ==
    /\ connectionState = "connected"
    /\ channelName = "a"
    /\ channelId = RoomId("a")
    /\ ws = [rs |-> "OPEN", closedByUs |-> FALSE, subscribed |-> TRUE]
    /\ isManualDisconnect = FALSE
    /\ reconnectTimer = NoTimer
    /\ messageBuffer = << >>
    /\ options \in DecodeOptions
    /\ orphans = EmptyBag
    /\ pendingTimers = {}
    /\ delays = NoDelays
    /\ pending = EmptyBag
    /\ emitted = << >>
    /\ sent = << >>
    /\ op = Op("new", "", "", FALSE)
    /\ quiesced = FALSE
    /\ arrived = << >>
    /\ events = [event \in KickKinds \cup LifecycleEvents |-> << >>]
    /\ eventKeys = {}
    /\ wrappers = 0
    /\ invoked = << >>
    /\ fired = EmptyBag

OnAllEvents ==
    Commit(OnEach(Called, AllEvents, 1, "all"),
           Op("onAllEvents", "", "all", FALSE), quiesced)

OnChatEvents ==
    Commit(OnEach(Called, ChatEvents, 1, "chat"),
           Op("onChatEvents", "", "chat", FALSE), quiesced)

OnUserEvents ==
    Commit(OnEach(Called, UserEvents, 1, "user"),
           Op("onUserEvents", "", "user", FALSE), quiesced)

OnStreamEvents ==
    Commit(OnEach(Called, StreamEvents, 1, "stream"),
           Op("onStreamEvents", "", "stream", FALSE), quiesced)

\* ws.onmessage of the held socket, with the listeners of its publishes called
DeliverToListeners(frame) ==
    /\ ws.rs = "OPEN"
    /\ Commit([DispatchEmitted(handleMessage(Called, frame), 1)
                  EXCEPT !.arrived = << frame >>],
              Op("message", "", "", TRUE), quiesced)

\* the manager publishes `ready`, `disconnect` or `error`
PublishLifecycle(event) ==
    Commit(emitFrom(emit(Called, event, NullEvent.data), event, 0).m,
           Op("lifecycle", event, "", FALSE), quiesced)

CategoryNext ==
    \/ OnAllEvents
    \/ OnChatEvents
    \/ OnUserEvents
    \/ OnStreamEvents
    \/ \E frame \in CategoryFrames : DeliverToListeners(frame)
    \/ \E event \in LifecycleEvents \ {"rawMessage"} : PublishLifecycle(event)

CategorySpec == CategoryInit /\ [][CategoryNext]_vars

\* the members of a list
Range(list) == { list[i] : i \in DOMAIN list }

\* the three categories are subscribed
CategoriesSubscribed ==
    \A h \in CategoryHandlers :
        \E event \in DOMAIN events : Contains(events[event], Plain(h))

\* C24: the event lists of the three category subscriptions are pairwise
\* disjoint and together are the ten kinds of onAllEvents; with the three
\* subscribed, the delivery of a frame that publishes a domain event calls
\* one of the three handlers, once, a delivery that publishes none calls
\* none, and a lifecycle publish calls none. The onAllEvents handler, if
\* subscribed, is called once per domain event.
C24_CategoriesPartitionTheKinds ==
    /\ Range(ChatEvents) \cap Range(UserEvents) = {}
    /\ Range(ChatEvents) \cap Range(StreamEvents) = {}
    /\ Range(UserEvents) \cap Range(StreamEvents) = {}
    /\ Range(ChatEvents) \cup Range(UserEvents) \cup Range(StreamEvents)
         = Range(AllEvents)
    /\ Range(AllEvents) = { kind \in DOMAIN WellFormedData : TRUE }
    /\ (CategoriesSubscribed /\ op.name = "message")
       => LET called == { h \in CategoryHandlers : OwnCount(invoked, Plain(h)) > 0 }
          IN  /\ Cardinality(called) = Len(DomainEvents)
              /\ \A h \in called : OwnCount(invoked, Plain(h)) = 1
              /\ Contains(events["ChatMessage"], Plain("all"))
                 => OwnCount(invoked, Plain("all")) = Len(DomainEvents)
    /\ (CategoriesSubscribed /\ op.name = "lifecycle") => invoked = << >>

\* a ban was published with the three categories and onAllEvents subscribed:
\* the user handler and the all handler were called, once each
C24_Witness ==
    /\ CategoriesSubscribed
    /\ op.name = "message"
    /\ LastFrame = Envelope(BanEventName, "{ban}")
    /\ invoked = << [fn |-> "all", once |-> 0, depth |-> 0],
                    [fn |-> "user", once |-> 0, depth |-> 0] >>

\* C25: at most one reconnect timer is armed, and it is the one the manager
\* references, so that arming the next one clears it; when disconnect()
\* returns none is armed and none is referenced.
C25_OneReconnectTimer ==
    /\ Cardinality(pendingTimers) <= 1
    /\ pendingTimers \subseteq {reconnectTimer}
    /\ op.name = "disconnect"
       => pendingTimers = {} /\ reconnectTimer = NoTimer

\* a timer is armed by the close of a socket the manager no longer
\* references while the socket of a later attempt is live: that socket's
\* close will arm the next timer
C25_Witness ==
    /\ op.name = "close"
    /\ ~op.held
    /\ Live(ws)
    /\ pendingTimers = {reconnectTimer}

\* C26: at most one connection attempt (a pending lookup or a socket with
\* handlers that has not closed) exists at a time, whether started by
\* connect() or by the reconnect timer, so that no two sockets pump frames.
C26_OneAttemptAtATime ==
    BagCardinality(pending) + LiveCount(Manager) <= 1

\* C27: while the state is `connecting` an attempt is in flight: a lookup is
\* pending, or there is a socket that has not reported its close.
C27_ConnectingMeansInFlight ==
    connectionState = "connecting"
    => \/ BagCardinality(pending) > 0
       \/ \E s \in SocketRefs : Live(s.sock)

C29_LateCloseIsIgnored ==
    [][ (op'.name = "close" /\ op'.by = "disconnect" /\ ~quiesced)
        => /\ connectionState' = connectionState
           /\ pendingTimers' = pendingTimers
           /\ reconnectTimer' = reconnectTimer ]_vars

\* C30: in whatever state the connection is, a frame a socket delivers is
\* published as `rawMessage`, stored in the buffer, and, unless it is a
\* control frame, decoded and published under its kind; the state stays as
\* it was.
C30_PipelineHasNoStateGuard ==
    [][ op'.name = "message"
        => /\ Len(emitted') >= 1
           /\ emitted'[1].ev = "rawMessage"
           /\ emitted'[1].arg \in Frames
           /\ messageBuffer'
                = LastN(Append(messageBuffer, emitted'[1].arg), BufCapacity)
           /\ IF emitted'[1].arg.event \in ControlEventNames
              THEN Len(emitted') = 1
              ELSE /\ Len(emitted') = 2
                   /\ emitted'[2].ev = "ChatMessage"
                   /\ emitted'[2].st = connectionState
           /\ connectionState' = connectionState ]_vars

\* a chat message was decoded and published while the state was
\* `reconnecting`
C30_Witness ==
    /\ op.name = "message"
    /\ connectionState = "reconnecting"
    /\ Len(emitted) = 2
    /\ emitted[2].ev = "ChatMessage"
    /\ emitted[2].st = "reconnecting"
    /\ messageBuffer # << >>

\* ------------------------------------------------------------------------
\* Options changed at run time
\* ------------------------------------------------------------------------
\* the `Partial<KickWebSocketOptions>` objects updateOptions() is called with
PartialOptions ==
    OptionUpdates
        \cup { [reconnectInterval |-> 1000] }
        \cup { [enableBuffer |-> e] : e \in BOOLEAN }
        \cup { [bufferSize |-> n] : n \in 0 .. MaxBufferSize }
        \cup { [filteredEvents |-> fe] : fe \in {{}, {"UserBanned"}} }
        \cup { [enableBuffer |-> TRUE, bufferSize |-> MaxBufferSize] }

\* the frames the open connection delivers while options change
OptionsFrames ==
    { Envelope(ChatEventName, "{chat}"), Envelope(BanEventName, "{ban}") }

\* a connected manager constructed without an event filter
OptionsInit == PipeInit /\ options.filteredEvents = {}

\* the connection is used and lost while the options change; every channel
\* lookup after the loss fails
OptionsNext ==
    \/ \E o \in PartialOptions : UpdateOptions(o)
    \/ \E s \in SocketRefs, frame \in OptionsFrames : SocketMessage(s, frame)
    \/ ClearMessageBuffer
    \/ \E s \in SocketRefs : SocketError(s)
    \/ \E s \in SocketRefs : SocketClose(s)
    \/ Connect("a")
    \/ \E p \in BagToSet(pending) : Resolve(p, "lookupFailed")
    \/ \E t \in pendingTimers : TimerFire(t)

OptionsSpec == OptionsInit /\ [][OptionsNext]_vars

\* C31: after an inbound frame is processed with buffering enabled, the
\* buffer holds at most bufferSize frames, also when updateOptions() lowered
\* bufferSize after earlier frames were buffered.
C31_BufferWithinCapacity ==
    (op.name = "message" /\ options.enableBuffer)
        => Len(messageBuffer) <= options.bufferSize

\* a frame was buffered at the capacity in force
C31_Witness ==
    /\ op.name = "message"
    /\ options.enableBuffer
    /\ options.bufferSize > 0
    /\ Len(messageBuffer) = options.bufferSize

\* the reconnect the options in force ask for after a loss: a timer armed
\* with the reconnectInterval in force, or none
ReconnectAsConfigured(idle) ==
    IF options.autoReconnect /\ ~isManualDisconnect
    THEN /\ connectionState' = "reconnecting"
         /\ reconnectTimer' \in pendingTimers'
         /\ delays'[reconnectTimer'] = options.reconnectInterval
    ELSE /\ connectionState' = idle
         /\ pendingTimers' = pendingTimers
         /\ reconnectTimer' = reconnectTimer

\* the next inbound frame is buffered and published as the options in force
\* say
FrameAsConfigured ==
    LET frame == emitted'[1].arg
        kind == parseMessage(frame).type
        allowed == options.filteredEvents = {} \/ kind \in options.filteredEvents
    IN  /\ messageBuffer' =
              IF ~options.enableBuffer THEN messageBuffer
              ELSE IF Len(messageBuffer) + 1 > options.bufferSize
              THEN Tail(Append(messageBuffer, frame))
              ELSE Append(messageBuffer, frame)
        /\ (\E i \in DOMAIN emitted' : emitted'[i].ev = kind) <=> allowed

\* C32: updateOptions(partial) sets the options named in partial and leaves
\* the other options, the connection state, the socket, the reconnect timer,
\* the buffer and the listeners as they were; the next inbound frame obeys
\* the enableBuffer, bufferSize and filteredEvents in force, and the next
\* close or connection error obeys the autoReconnect and reconnectInterval
\* in force.
C32_UpdateOptionsMergesAndGoverns ==
    [][ /\ \A o \in PartialOptions :
              UpdateOptions(o) =>
                  /\ \A k \in DOMAIN o : options'[k] = o[k]
                  /\ \A k \in DOMAIN options \ DOMAIN o : options'[k] = options[k]
                  /\ UNCHANGED << connectionState, channelName, channelId, ws,
                                  orphans, isManualDisconnect, reconnectTimer,
                                  pendingTimers, delays, pending,
                                  messageBuffer, events >>
        /\ op'.name = "message" => FrameAsConfigured
        /\ op'.name = "close" => ReconnectAsConfigured("disconnected")
        /\ (op'.name = "resolve" /\ op'.by = "connect" /\ op'.result = "rejected")
              => ReconnectAsConfigured("error") ]_vars

\* after updateOptions() changed them, a frame was buffered and filtered out
\* by the new values, and later the connection was lost and the reconnect
\* armed with the new interval
C32_Witness ==
    /\ op.name = "close"
    /\ options.reconnectInterval # DefaultReconnectInterval
    /\ options.filteredEvents # {}
    /\ reconnectTimer \in pendingTimers
    /\ delays[reconnectTimer] = options.reconnectInterval
    /\ Len(messageBuffer) = MaxBufferSize

\* steps 1-4 of the decoder reject the frame: blank text, malformed JSON,
\* missing event or data, control-prefix event name, empty event or data
RejectedBeforePayload(frame) ==
    \/ frame.raw \in BlankTexts
    \/ ~frame.json
    \/ frame.event \in {Undefined, ""}
    \/ frame.data \in {Undefined, ""}
    \/ frame.event \in ControlEventNames

\* C33: extractEventType(frame) is null exactly when the frame is blank, not
\* JSON, lacks `event` or `data`, has a control-prefix event name or an empty
\* `event` or `data`; otherwise it is the envelope's event name unchanged.
C33_ExtractMatchesDecoderSteps ==
    op.name = "message" =>
        /\ extractEventType(LastFrame) = "null" <=> RejectedBeforePayload(LastFrame)
        /\ ~RejectedBeforePayload(LastFrame)
              => extractEventType(LastFrame) = LastFrame.event

\* a frame with an event name and a payload went through extractEventType
C33_Witness ==
    /\ op.name = "message"
    /\ ~RejectedBeforePayload(LastFrame)
    /\ extractEventType(LastFrame) = UnknownEventName

\* ------------------------------------------------------------------------
\* Reading and pruning the buffer
\* ------------------------------------------------------------------------
\* frames of two kinds, a chat envelope whose payload does not decode, a
\* control frame and a text that is not JSON
ExportFrames ==
    { Envelope(ChatEventName, "{chat}"),
      Envelope(ChatEventName, "{}"),
      Envelope(BanEventName, "{ban}"),
      Envelope("pusher:connection_established", "{}"),
      TextFrame("not json") }

\* the kinds asked for: two that frames decode to and one that none does
ExportKinds == {"ChatMessage", "UserBanned", "PollUpdate"}

\* the arguments of exportRawMessagesInRange: indices within the buffer,
\* endIndex passed or omitted
RangeArgs ==
    { [startIndex |-> s, endIndex |-> e] :
          s \in 0 .. Len(messageBuffer), e \in 0 .. Len(messageBuffer) }
        \cup { [startIndex |-> s] : s \in 0 .. Len(messageBuffer) }

\* a connected manager that buffers, with no filter
ExportInit ==
    /\ PipeInit
    /\ options.enableBuffer
    /\ options.bufferSize = MaxBufferSize
    /\ options.filteredEvents = {}

ExportNext ==
    \/ \E s \in SocketRefs, frame \in ExportFrames : SocketMessage(s, frame)
    \/ ClearMessageBuffer
    \/ \E eventType \in ExportKinds : ClearRawMessagesByEventType(eventType)
    \/ \E eventType \in ExportKinds : ExportRawMessagesByEventType(eventType)
    \/ \E args \in RangeArgs : ExportRawMessagesInRange(args)

ExportSpec == ExportInit /\ [][ExportNext]_vars

\* the frames of a buffer that decode to kind k, and the others, in order
DecodingTo(buffer, k) ==
    SelectSeq(buffer, LAMBDA frame : parseMessage(frame).type = k)

NotDecodingTo(buffer, k) ==
    SelectSeq(buffer, LAMBDA frame : parseMessage(frame).type # k)

\* C34: exportRawMessagesByEventType(k) returns the buffered frames that
\* decode to k, in buffer order, and leaves the buffer as it was;
\* clearRawMessagesByEventType(k) removes those frames and keeps the others
\* in order; a second clear changes nothing and the export for k is then
\* empty.
C34_ExportAndClearByKind ==
    [][ /\ op'.name = "exportRawMessagesByEventType" =>
              /\ op'.result = DecodingTo(messageBuffer, op'.by)
              /\ messageBuffer' = messageBuffer
        /\ op'.name = "clearRawMessagesByEventType" =>
              LET cleared == [Manager EXCEPT !.messageBuffer = messageBuffer']
              IN  /\ messageBuffer' = NotDecodingTo(messageBuffer, op'.by)
                  /\ clearRawMessagesByEventType(cleared, op'.by).messageBuffer
                        = messageBuffer'
                  /\ exportRawMessagesByEventType(cleared, op'.by) = << >> ]_vars

\* an export returned one of two buffered frames, the other being a chat
\* envelope that does not decode
C34_Witness ==
    /\ op.name = "exportRawMessagesByEventType"
    /\ op.by = "ChatMessage"
    /\ Len(messageBuffer) = 2
    /\ Len(op.result) = 1
    /\ Envelope(ChatEventName, "{}") \in { messageBuffer[i] : i \in 1 .. 2 }

\* the frames of a buffer at the 0-based indices from <= i < to
FramesAt(buffer, from, to) ==
    [i \in 1 .. (to - from) |-> buffer[from + i]]

\* C39: exportRawMessagesInRange(start, end) with 0 <= start <= end <= length
\* returns the buffered frames at indices start <= i < end in buffer order
\* (none when end = 0 or start = end); with end omitted it returns the
\* frames from start to the end of the buffer; the buffer is left unchanged.
C39_RangeExport ==
    [][ op'.name = "exportRawMessagesInRange" =>
          LET args == op'.by
          IN  /\ messageBuffer' = messageBuffer
              /\ (Has(args, "endIndex") /\ args.startIndex <= args.endIndex)
                    => op'.result =
                          FramesAt(messageBuffer, args.startIndex, args.endIndex)
              /\ ~Has(args, "endIndex")
                    => op'.result =
                          FramesAt(messageBuffer, args.startIndex,
                                   Len(messageBuffer)) ]_vars

\* an export of an inner range returned one of two buffered frames
C39_Witness ==
    /\ op.name = "exportRawMessagesInRange"
    /\ Has(op.by, "endIndex")
    /\ op.by.startIndex = 1
    /\ op.by.endIndex = 2
    /\ Len(messageBuffer) = 2
    /\ op.result = << messageBuffer[2] >>

\* ------------------------------------------------------------------------
\* Registrations of one function
\* ------------------------------------------------------------------------
\* the registrations of function h under an event: as it is or wrapped by
\* once()
RegistrationsOf(listeners, h) ==
    SelectSeq(listeners, LAMBDA l : l.fn = h)

\* C35: every on(event, h) adds a registration, also when h is already
\* registered under the event: n calls give listenerCount(event) = n.
C35_EveryOnRegisters ==
    [][ op'.name = "on" =>
          listenerCount([events |-> events'], op'.by)
              = listenerCount(Manager, op'.by) + 1 ]_vars

\* C36: off(event, h) cancels the pending one-shot registration that
\* once(event, h) made: when h's only registration under the event is a
\* pending once, after off(event, h) the event has no registration of h, so
\* listenerCount does not count it and emit does not call it.
C36_OffCancelsOnce ==
    [][ ( /\ op'.name = "off"
          /\ Len(RegistrationsOf(events[op'.by], op'.result)) = 1
          /\ RegistrationsOf(events[op'.by], op'.result)[1].once > 0 )
        => RegistrationsOf(events'[op'.by], op'.result) = << >> ]_vars

\* off(event, h) was called while a once(event, h) was pending
C36_Witness ==
    /\ op.name = "off"
    /\ op.by = "message"
    /\ op.result = "listener"
    /\ ~op.held
    /\ wrappers = 1
    /\ fired = EmptyBag

\* ------------------------------------------------------------------------
\* The event names of an emitter
\* ------------------------------------------------------------------------
\* a function that returns and one that takes the first off the event from
\* inside the dispatch
NamesHandlers == {"listener", "remover"}

\* removeAllListeners(event?), event omitted as Undefined
RemoveAllListeners(event) ==
    Commit(removeAllListeners(Called, event),
           Op("removeAllListeners", event, "", FALSE), quiesced)

PrependListener(event, h) ==
    /\ listenerCount(Manager, event) < MaxRegistered
    /\ Commit(prependListener(Called, event, Plain(h)),
              Op("prependListener", event, h, FALSE), quiesced)

NamesNext ==
    \/ \E event \in RegistryEvents, h \in NamesHandlers : On(event, h)
    \/ \E event \in RegistryEvents : Once(event, "listener")
    \/ \E event \in RegistryEvents, h \in NamesHandlers : Off(event, h)
    \/ \E event \in RegistryEvents \cup {Undefined} : RemoveAllListeners(event)
    \/ \E event \in RegistryEvents, h \in NamesHandlers : PrependListener(event, h)
    \/ \E event \in RegistryEvents : Emit(event)

NamesSpec == RegistryInit /\ [][NamesNext]_vars

\* C37: eventNames() lists exactly the event names whose listenerCount is at
\* least 1: no name is kept with an empty listener set and none that has
\* listeners is missing.
C37_EventNamesAreTheListenedEvents ==
    \A event \in DOMAIN events :
        event \in eventNames(Manager) <=> listenerCount(Manager, event) >= 1

\* the last listener of one event was taken off while the other event kept
\* its listeners
C37_Witness ==
    /\ op.name = "off"
    /\ op.by = "message"
    /\ op.held
    /\ listenerCount(Manager, "message") = 0
    /\ eventNames(Manager) = {"error"}
    /\ Len(events["error"]) = 2

\* getChannelName() and getChannelId()
getChannelName == channelName
getChannelId == channelId

\* C38: disconnect() discards the resolved channel: from its return until a
\* new connect() the instance reports no channel, getChannelName() is "" and
\* getChannelId() is 0, as at construction.
C38_ChannelDiscardedOnDisconnect ==
    quiesced => (getChannelName = "" /\ getChannelId = 0)

\* disconnect() returned on an instance that had resolved a channel and
\* opened its socket
C38_Witness ==
    /\ op.name = "disconnect"
    /\ op.held
    /\ quiesced
    /\ connectionState = "disconnected"
    /\ ws = NullSocket

====
